---- MODULE Spec2Model ----
(***************************************************************************)
(* Pool discovery and synchronisation of amm-toolkit.                      *)
(*                                                                         *)
(* Addresses (H160) are naturals, 0 is H160::zero().  The pair registered  *)
(* at factory index i (0-based) has address i + 1.                         *)
(***************************************************************************)
EXTENDS Integers, Sequences, FiniteSets, TLC

\* ------------------------------------------------------------------ bounds

\* largest pair count of the address enumeration runs (besides 10 windows)
MaxPairsLength == 1540

\* highest block the chain reaches
MaxHead == 2
\* most pairs the factory registers while the chain advances
MaxChainPairs == 2
\* largest window step a run is given
MaxStep == 2

\* most addresses get_weth_value_in_pools is given
MaxAddresses == 4
\* largest window step get_weth_value_in_pools is given
MaxWethStep == 3
\* largest WETH value the chain reports for a pool
MaxWethValue == 1

\* the windows of one index-range run of the window check
MaxWindows == 10
\* the window steps the window check enumerates besides the step of sync.rs
MaxWindowStep == 2
\* the timestamps of the checkpoints saved
MaxTimestamp == 2
\* the addresses of one pool data batch call
MaxBatch == 2
\* the elements of the array a pairs batch call returns
MaxResponse == 4
\* the integers of the swap arithmetic, scaled to the integers of TLC: the
\* largest value of the 256-bit word U256 and the largest 112-bit reserve,
\* kept so that a reserve times 1000 fits the word as 2^112 * 1000 fits 2^256
WORD_MAX == 1048575
RESERVE_MAX == 511
\* the small amounts and reserves enumerated besides the largest ones
MaxAmountIn == 12
MaxReserve == 5
\* the integers of the price arithmetic on the same scale: the bits of the
\* u128, which keep a largest reserve times a largest u128 within the word,
\* and the fractional bits of the fixed point, half the bits of the u128
U128_BITS == 10
FRACTION_BITS == 5
\* the token decimals enumerated besides 18 and those around the sign bit
\* and the top of the u8
MaxDecimals == 5

\* ------------------------------------------------------------ program constants

\* factory.rs:181  let step = 766
PAIRS_STEP == 766
\* configs/mod.rs:63  the fee of the factory
FACTORY_FEE == 300
\* configs: the factory's creation block, block 0 of the modelled chain
CREATION_BLOCK == 0

VARIABLES
    \* the chain: head block number, the factory's registry (allPairs) and the
    \* state of the pair contracts: registry[i + 1] is the block in which the
    \* pair of index i was created, pool_data[a] what the pool data batch
    \* contract reads for address a
    head,
    registry,
    pool_data,
    \* UniswapV2Factory::get_all_pairs_addresses_via_batched_calls
    pairs_length,   \* the pair count read from the factory
    idx_from,
    idx_to,
    pairs,          \* the addresses collected so far
    pa_i,           \* the value of the loop's range iterator
    pa_calls,       \* the (from, to) arguments of the batch calls issued
    pa_pc,          \* "start", "loop", "ok", "err"
    \* sync_all_uniswap_v2_pools_from_logs_use_range / get_pools_from_logs
    sync_block,     \* the start block the run is given
    current_block,  \* the chain head the run read
    total_blocks,
    lg_step,        \* the window step (100 in sync.rs, a parameter in factory.rs)
    lg_futures,     \* the (block_start, block_end) of the window calls, in order
    lg_results,     \* the result of each window call, "Pending" while in flight
    lg_pools,       \* the pool list of the run's Ok result
    lg_err,         \* the error of the run's Err result
    lg_pc,          \* "idle", "joined", "ok", "err", "panic"
    \* the caller's checkpoint over the runs: the block number of the last
    \* Ok run (-1 before the first) and the addresses the Ok runs returned
    checkpoint_block,
    checkpoint_amms,
    \* sync_all_uniswap_v2_pools_concurrent / get_all_pools
    ix_current_block,  \* the chain head the run read
    ix_pairs_length,   \* the pair count the run read
    ix_step,           \* the window step (100 in sync.rs, a parameter in factory.rs)
    ix_futures,        \* the (from, to) of the window calls, in order
    ix_results,        \* the result of each window call, "Pending" while in flight
    ix_pools,          \* the pool list of the run's Ok result
    ix_err,            \* the error of the run's Err result
    ix_overtaken,      \* a window call has returned while an earlier one was in flight
    ix_pc,             \* "idle", "block_read", "joined", "ok", "err"
    \* get_weth_value_in_pools
    weth_addresses,        \* the addresses the function is given
    weth_step,
    weth_futures,          \* the address lists of the first round's calls
    weth_results,          \* their results, "Pending" while in flight
    weth_values_in_pools,  \* the map collected so far
    failed_addresses,
    retry_futures,         \* the address lists of the retry calls
    retry_results,
    weth_round,            \* 0 before the run, 1 first round, 2 retry round
    weth_err,              \* the error of the function's Err result
    weth_pc,               \* "idle", "round1", "retry", "ok", "err"
    \* Checkpoint::save_to_path / Checkpoint::read_from_path on one path
    file,           \* the file at the path: whether it exists, and its content
    sv_self,        \* the checkpoint save_to_path is called on
    sv_buf,         \* the document serde_json::to_string_pretty produced
    sv_result,      \* "none" before the first save, then "Ok" or "Err"
    sv_pc,          \* "idle", "writing"
    sv_previous,    \* the complete checkpoint at the path when the save began
    rd_result,      \* the result the reader's last read_from_path returned
    \* one call of a function of the batch client or of the pool
    call_fn,        \* the function called
    call_args,      \* its arguments and what the chain returns to it
    call_result,    \* "none" before it returns, then its result
    call_steps      \* the calls of library routines it has made, in order

chainVars == <<head, registry, pool_data>>
indexVars == <<ix_current_block, ix_pairs_length, ix_step, ix_futures, ix_results,
               ix_pools, ix_err, ix_overtaken, ix_pc>>
pairsVars == <<pairs_length, idx_from, idx_to, pairs, pa_i, pa_calls, pa_pc>>
logRunVars == <<sync_block, current_block, total_blocks, lg_step, lg_futures,
                lg_results, lg_pools, lg_err, lg_pc>>
checkpointVars == <<checkpoint_block, checkpoint_amms>>
logVars == <<logRunVars, checkpointVars>>
storeVars == <<file, sv_self, sv_buf, sv_result, sv_pc, sv_previous, rd_result>>
callVars == <<call_fn, call_args, call_result, call_steps>>
auxVars == <<storeVars, callVars>>
wethVars == <<weth_addresses, weth_step, weth_futures, weth_results,
              weth_values_in_pools, failed_addresses, retry_futures,
              retry_results, weth_round, weth_err, weth_pc>>
vars == <<chainVars, pairsVars, logVars, indexVars, wethVars, auxVars>>

ZERO_ADDRESS == 0

\* sync.rs:68,72: the window step of the index-range runs
INDEX_STEP == 100

Min(a, b) == IF a < b THEN a ELSE b
Max(a, b) == IF a > b THEN a ELSE b

\* ------------------------------------------------------------------ chain

\* the tuples the pool data batch contract may return for a pair: at most one
\* of the token addresses and reserves is zero
ChainTuples ==
    {t \in [token_a : {0, 11}, token_a_decimals : {6}, token_b : {0, 12},
            token_b_decimals : {18}, reserve_0 : {0, 5}, reserve_1 : {0, 7}] :
        Cardinality({f \in {"token_a", "token_b", "reserve_0", "reserve_1"} : t[f] = 0}) <= 1}

\* a pair whose data is populated
PopulatedTuple ==
    [token_a |-> 11, token_a_decimals |-> 6, token_b |-> 12,
     token_b_decimals |-> 18, reserve_0 |-> 5, reserve_1 |-> 7]

\* the chain produces a block in which the factory creates n pairs
MineBlock ==
    /\ head < MaxHead
    /\ head' = head + 1
    /\ \E n \in 0..(MaxChainPairs - Len(registry)) :
         \E ds \in [1..n -> ChainTuples] :
            /\ registry' = registry \o [k \in 1..n |-> head + 1]
            /\ pool_data' = pool_data \o ds

\* IUniswapV2Factory.allPairs(index): the zero address beyond the registry
allPairs(index) == IF index < Len(registry) THEN index + 1 ELSE ZERO_ADDRESS

\* IUniswapV2Factory.allPairsLength()
allPairsLength == Len(registry)

\* the array the pairs batch contract returns for the index range [from, to)
PairsBatchResponse(from, to) ==
    [k \in 1..Max(to - from, 0) |-> allPairs(from + k - 1)]

\* the non-zero addresses, each pushed in front of the ones before it
pairs_from_response_PushesFront(response) ==
    LET kept == SelectSeq(response, LAMBDA addr : addr # ZERO_ADDRESS)
    IN  [j \in 1..Len(kept) |-> kept[Len(kept) + 1 - j]]

\* batch_request/mod.rs:188-204: the for_each over the response array pushes
\* every address that is not zero
pairs_from_response(response) ==
    SelectSeq(response, LAMBDA addr : addr # ZERO_ADDRESS)

\* batch_request::get_uniswap_v2_pairs_batch_request: the non-zero addresses
\* of the response, in response order
get_uniswap_v2_pairs_batch_request(from, to) ==
    pairs_from_response(PairsBatchResponse(from, to))

\* batch_request/mod.rs:137,149  .as_u32() as u8
AsU8(v) == v % 256

\* a pool built with the reserves in each other's place
PoolFromTuple_SwapsReserves(tup, pair_address, fee) ==
    [address |-> pair_address,
     token_a |-> tup.token_a,
     token_a_decimals |-> AsU8(tup.token_a_decimals),
     token_b |-> tup.token_b,
     token_b_decimals |-> AsU8(tup.token_b_decimals),
     reserve_0 |-> tup.reserve_1,
     reserve_1 |-> tup.reserve_0,
     fee |-> fee]

\* UniswapV2Pool built from the i-th returned tuple (batch_request/mod.rs:124-163)
PoolFromTuple(tup, pair_address, fee) ==
    [address |-> pair_address,
     token_a |-> tup.token_a,
     token_a_decimals |-> AsU8(tup.token_a_decimals),
     token_b |-> tup.token_b,
     token_b_decimals |-> AsU8(tup.token_b_decimals),
     reserve_0 |-> tup.reserve_0,
     reserve_1 |-> tup.reserve_1,
     fee |-> fee]

\* what the chain returns to the pool data batch call: the call fails, the
\* return data does not decode as an array of 6-tuples, or it decodes
CallError == [kind |-> "call_error", tuples |-> <<>>]
Undecodable == [kind |-> "undecodable", tuples |-> <<>>]
Decodable(tuples) == [kind |-> "array", tuples |-> tuples]

\* the result of a call: Ok with a list, Err with an error, or a panic
CallOk(list) == [kind |-> "Ok", value |-> list, err |-> ""]
CallErr(e) == [kind |-> "Err", value |-> <<>>, err |-> e]
CallPanic == [kind |-> "Panic", value |-> <<>>, err |-> ""]

\* batch_request/mod.rs:90-167 on what the chain returned: `?` returns the
\* error of the call and of ethers::abi::decode; pair_addresses[idx] panics
\* on an array longer than pair_addresses; else every tuple becomes a pool
pool_data_from_return_data(pair_addresses, fee, return_data) ==
    IF return_data.kind = "call_error" THEN CallErr("ContractError")
    ELSE IF return_data.kind = "undecodable" THEN CallErr("EthABIError")
    ELSE IF Len(return_data.tuples) > Len(pair_addresses) THEN CallPanic
    ELSE CallOk([idx \in 1..Len(return_data.tuples) |->
                    PoolFromTuple(return_data.tuples[idx], pair_addresses[idx], fee)])

\* batch_request::get_uniswap_v2_pool_data_batch_request on the response of
\* the batch contract, which holds one tuple per input address
get_uniswap_v2_pool_data_batch_request(pair_addresses, fee) ==
    pool_data_from_return_data(pair_addresses, fee,
        Decodable([idx \in 1..Len(pair_addresses) |-> pool_data[pair_addresses[idx]]])).value

\* UniswapV2Pool::data_is_populated
data_is_populated(pool) ==
    ~(pool.token_a = ZERO_ADDRESS \/ pool.token_b = ZERO_ADDRESS
      \/ pool.reserve_0 = 0 \/ pool.reserve_1 = 0)

\* get_logs over the inclusive block range [block_start, block_end]: the pair
\* address of every PairCreated event of these blocks, in chain log order
PairCreatedLogs(block_start, block_end) ==
    SelectSeq([a \in 1..Len(registry) |-> a],
              LAMBDA a : block_start <= registry[a] /\ registry[a] <= block_end)

\* UniswapV2Factory::get_all_pools_for_block_range_from_logs, no call failing
get_all_pools_for_block_range_from_logs(block_start, block_end) ==
    get_uniswap_v2_pool_data_batch_request(
        PairCreatedLogs(block_start, block_end), FACTORY_FEE)

\* ------------------------------ get_all_pairs_addresses_via_batched_calls

PairsIdle ==
    /\ pairs_length = 0
    /\ idx_from = 0
    /\ idx_to = 0
    /\ pairs = <<>>
    /\ pa_i = 0
    /\ pa_calls = <<>>
    /\ pa_pc = "start"

\* factory.rs:175-187: read the pair count, set the first window
PairsBegin ==
    /\ pa_pc = "start"
    /\ pairs_length' = allPairsLength
    /\ idx_from' = 0
    /\ idx_to' = IF PAIRS_STEP > allPairsLength THEN allPairsLength ELSE PAIRS_STEP
    /\ pairs' = <<>>
    /\ pa_i' = 0
    /\ pa_calls' = <<>>
    /\ pa_pc' = "loop"
    /\ UNCHANGED chainVars

\* factory.rs:200  idx_to = (idx_to + step).min(pairs_length - 1)
NextIdxTo(to, length) == Min(to + PAIRS_STEP, length - 1)

\* factory.rs:189-201: one iteration of the loop, its call succeeding
PairsBatchCall ==
    /\ pa_pc = "loop"
    /\ pa_i < pairs_length
    /\ pairs' = pairs \o get_uniswap_v2_pairs_batch_request(idx_from, idx_to)
    /\ pa_calls' = Append(pa_calls, <<idx_from, idx_to>>)
    /\ idx_from' = idx_to
    /\ idx_to' = NextIdxTo(idx_to, pairs_length)
    /\ pa_i' = pa_i + PAIRS_STEP
    /\ UNCHANGED <<pairs_length, pa_pc, chainVars>>

\* factory.rs:197: the call fails and `?` returns the error
PairsBatchCallFails ==
    /\ pa_pc = "loop"
    /\ pa_i < pairs_length
    /\ pa_calls' = Append(pa_calls, <<idx_from, idx_to>>)
    /\ pa_pc' = "err"
    /\ UNCHANGED <<pairs_length, idx_from, idx_to, pairs, pa_i, chainVars>>

\* factory.rs:202: the range is exhausted, Ok(pairs)
PairsReturn ==
    /\ pa_pc = "loop"
    /\ pa_i >= pairs_length
    /\ pa_pc' = "ok"
    /\ UNCHANGED <<pairs_length, idx_from, idx_to, pairs, pa_i, pa_calls, chainVars>>

\* ------------------------------ sync_all_uniswap_v2_pools_from_logs_use_range

Pending == [kind |-> "Pending", pools |-> <<>>, err |-> ""]
OkResult(ps) == [kind |-> "Ok", pools |-> ps, err |-> ""]
ErrResult(e) == [kind |-> "Err", pools |-> <<>>, err |-> e]

\* the errors a window's chain calls can fail with
WindowErrors == {"MiddlewareError", "ContractError"}

\* the values i of (from..to).step_by(step)
StepBy(from, to, step) == {i \in from..(to - 1) : (i - from) % step = 0}

\* windows whose upper bound is clipped to the last index instead of the end
Windows_ClipsToLastIndex(from, to, step) ==
    [k \in 1..Cardinality(StepBy(from, to, step)) |->
        <<from + (k - 1) * step, Min(from + (k - 1) * step + step, to - 1)>>]

\* the windows of `for i in (from..to).step_by(step)` as a sequence of
\* (i, (i + step).min(to)), in iteration order
Windows(from, to, step) ==
    [k \in 1..Cardinality(StepBy(from, to, step)) |->
        <<from + (k - 1) * step, Min(from + (k - 1) * step + step, to)>>]

\* a - b on u64 in a build without overflow checks: the difference is
\* diff + wrapped * 2^64 (2^64 itself is beyond TLC's integers)
WrappingSub(a, b) == [diff |-> a - b, wrapped |-> IF a < b THEN 1 ELSE 0]

LogRunIdle ==
    /\ sync_block = 0
    /\ current_block = 0
    /\ total_blocks = WrappingSub(0, 0)
    /\ lg_step = 1
    /\ lg_futures = <<>>
    /\ lg_results = <<>>
    /\ lg_pools = <<>>
    /\ lg_err = ""
    /\ lg_pc = "idle"

\* the start block of the next run: the factory's creation block on the
\* first run, checkpoint.block_number + 1 on a resync
StartBlock == IF checkpoint_block < 0 THEN CREATION_BLOCK ELSE checkpoint_block + 1

\* sync.rs:135-155: read the head, build one future per window
LogsBegin(start, step) ==
    /\ lg_pc = "idle"
    /\ sync_block' = start
    /\ lg_step' = step
    /\ current_block' = head
    /\ total_blocks' = WrappingSub(head, start)
    /\ lg_futures' = Windows(start, head, step)
    /\ lg_results' = [k \in 1..Len(Windows(start, head, step)) |-> Pending]
    /\ lg_pools' = <<>>
    /\ lg_err' = ""
    /\ lg_pc' = "joined"
    /\ UNCHANGED <<chainVars, checkpointVars>>

\* sync.rs:141: `current_block - sync_block` overflows when the start block is
\* beyond the head; a build with overflow checks panics there
LogsBeginPanics(start) ==
    /\ lg_pc = "idle"
    /\ start > head
    /\ sync_block' = start
    /\ current_block' = head
    /\ lg_pc' = "panic"
    /\ UNCHANGED <<total_blocks, lg_step, lg_futures, lg_results, lg_pools, lg_err,
                   chainVars, checkpointVars>>

\* factory.rs:88-120: window k's calls succeed
LogsWindowOk(k) ==
    /\ lg_pc = "joined"
    /\ lg_results[k].kind = "Pending"
    /\ lg_results' = [lg_results EXCEPT ![k] =
            OkResult(get_all_pools_for_block_range_from_logs(
                        lg_futures[k][1], lg_futures[k][2]))]
    /\ UNCHANGED <<sync_block, current_block, total_blocks, lg_step, lg_futures,
                   lg_pools, lg_err, lg_pc, chainVars, checkpointVars>>

\* factory.rs:104,113: one of window k's calls fails
LogsWindowErr(k, e) ==
    /\ lg_pc = "joined"
    /\ lg_results[k].kind = "Pending"
    /\ lg_results' = [lg_results EXCEPT ![k] = ErrResult(e)]
    /\ UNCHANGED <<sync_block, current_block, total_blocks, lg_step, lg_futures,
                   lg_pools, lg_err, lg_pc, chainVars, checkpointVars>>

\* the loop with an error arm that returns the pools collected so far
RECURSIVE MergeTolerant_KeepsPartial(_, _, _)
MergeTolerant_KeepsPartial(results, k, acc) ==
    IF k > Len(results) THEN [status |-> "ok", pools |-> acc, err |-> ""]
    ELSE IF results[k].kind = "Ok"
        THEN MergeTolerant_KeepsPartial(results, k + 1, acc \o results[k].pools)
    ELSE IF results[k].err = "PoolDataError"
        THEN MergeTolerant_KeepsPartial(results, k + 1, acc)
    ELSE [status |-> "err", pools |-> acc, err |-> results[k].err]

\* sync.rs:158-167: the loop over the results, from result k on, with the
\* pools collected so far: Ok appends, PoolDataError is skipped, any other
\* error is returned
RECURSIVE MergeTolerant(_, _, _)
MergeTolerant(results, k, acc) ==
    IF k > Len(results) THEN [status |-> "ok", pools |-> acc, err |-> ""]
    ELSE IF results[k].kind = "Ok"
        THEN MergeTolerant(results, k + 1, acc \o results[k].pools)
    ELSE IF results[k].err = "PoolDataError"
        THEN MergeTolerant(results, k + 1, acc)
    ELSE [status |-> "err", pools |-> <<>>, err |-> results[k].err]

\* sync.rs:157-171: join_all has every result; merge them and return
LogsMerge ==
    /\ lg_pc = "joined"
    /\ \A k \in 1..Len(lg_results) : lg_results[k].kind # "Pending"
    /\ LET m == MergeTolerant(lg_results, 1, <<>>) IN
        /\ lg_pc' = m.status
        /\ lg_pools' = m.pools
        /\ lg_err' = m.err
    /\ UNCHANGED <<sync_block, current_block, total_blocks, lg_step, lg_futures,
                   lg_results, chainVars, checkpointVars>>

\* the caller after an Ok run: the checkpoint takes the returned block number
\* and gains the returned pools
CheckpointUpdate ==
    /\ lg_pc = "ok"
    /\ checkpoint_block' = current_block
    /\ checkpoint_amms' = checkpoint_amms \o [k \in 1..Len(lg_pools) |-> lg_pools[k].address]
    /\ lg_pc' = "idle"
    /\ UNCHANGED <<sync_block, current_block, total_blocks, lg_step, lg_futures,
                   lg_results, lg_pools, lg_err, chainVars>>

\* the caller after a failed run: the previous checkpoint stays
CheckpointKept ==
    /\ lg_pc \in {"err", "panic"}
    /\ lg_pc' = "idle"
    /\ UNCHANGED <<sync_block, current_block, total_blocks, lg_step, lg_futures,
                   lg_results, lg_pools, lg_err, chainVars, checkpointVars>>

WethIdle ==
    /\ weth_addresses = <<>>
    /\ weth_step = 1
    /\ weth_futures = <<>>
    /\ weth_results = <<>>
    /\ weth_values_in_pools = <<>>
    /\ failed_addresses = <<>>
    /\ retry_futures = <<>>
    /\ retry_results = <<>>
    /\ weth_round = 0
    /\ weth_err = ""
    /\ weth_pc = "idle"

\* ------------------------------ Checkpoint::save_to_path / read_from_path

\* the digits of n in a base, most significant first, as serde_json writes an
\* integer (base 10) and H160 writes its hex string (base 16)
RECURSIVE Digits(_, _)
Digits(n, base) ==
    IF n < base THEN <<n>> ELSE Append(Digits(n \div base, base), n % base)

\* the number a digit string is parsed to
RECURSIVE FromDigits(_, _)
FromDigits(ds, base) ==
    IF Len(ds) = 0 THEN 0
    ELSE FromDigits(SubSeq(ds, 1, Len(ds) - 1), base) * base + ds[Len(ds)]

\* derive(Serialize) of UniswapV2Pool: one JSON object, a field per member
SerializePool(p) ==
    [address |-> Digits(p.address, 16),
     token_a |-> Digits(p.token_a, 16),
     token_a_decimals |-> Digits(p.token_a_decimals, 10),
     token_b |-> Digits(p.token_b, 16),
     token_b_decimals |-> Digits(p.token_b_decimals, 10),
     reserve_0 |-> Digits(p.reserve_0, 10),
     reserve_1 |-> Digits(p.reserve_1, 10),
     fee |-> Digits(p.fee, 10)]

\* derive(Deserialize) of UniswapV2Pool
DeserializePool(o) ==
    [address |-> FromDigits(o.address, 16),
     token_a |-> FromDigits(o.token_a, 16),
     token_a_decimals |-> FromDigits(o.token_a_decimals, 10),
     token_b |-> FromDigits(o.token_b, 16),
     token_b_decimals |-> FromDigits(o.token_b_decimals, 10),
     reserve_0 |-> FromDigits(o.reserve_0, 10),
     reserve_1 |-> FromDigits(o.reserve_1, 10),
     fee |-> FromDigits(o.fee, 10)]

\* derive(Serialize) of UniswapV2Factory
SerializeFactory(f) ==
    [address |-> Digits(f.address, 16),
     creation_block |-> Digits(f.creation_block, 10),
     fee |-> Digits(f.fee, 10)]

\* derive(Deserialize) of UniswapV2Factory
DeserializeFactory(o) ==
    [address |-> FromDigits(o.address, 16),
     creation_block |-> FromDigits(o.creation_block, 10),
     fee |-> FromDigits(o.fee, 10)]

\* one lexical piece of the document
Tok(t, v) == [t |-> t, v |-> v]

\* a serializer that writes the pools last to first
to_string_pretty_ReversesAmms(c) ==
    <<Tok("{", <<>>),
      Tok("timestamp", Digits(c.timestamp, 10)),
      Tok("block_number", Digits(c.block_number, 10)),
      Tok("factory", SerializeFactory(c.factory)),
      Tok("amms[", <<>>)>>
    \o [i \in 1..Len(c.amms) |-> Tok("amm", SerializePool(c.amms[Len(c.amms) + 1 - i]))]
    \o <<Tok("]", <<>>), Tok("}", <<>>)>>

\* serde_json::to_string_pretty(&checkpoint): the document, piece by piece
to_string_pretty(c) ==
    <<Tok("{", <<>>),
      Tok("timestamp", Digits(c.timestamp, 10)),
      Tok("block_number", Digits(c.block_number, 10)),
      Tok("factory", SerializeFactory(c.factory)),
      Tok("amms[", <<>>)>>
    \o [i \in 1..Len(c.amms) |-> Tok("amm", SerializePool(c.amms[i]))]
    \o <<Tok("]", <<>>), Tok("}", <<>>)>>

\* a checkpoint value that stands for "no checkpoint" where a record is needed
NoCheckpoint == [timestamp |-> 0, block_number |-> 0,
                 factory |-> [address |-> 0, creation_block |-> 0, fee |-> 0],
                 amms |-> <<>>]

\* whether a document is a whole Checkpoint object
IsCheckpointDocument(doc) ==
    /\ Len(doc) >= 7
    /\ doc[1].t = "{"
    /\ doc[2].t = "timestamp"
    /\ doc[3].t = "block_number"
    /\ doc[4].t = "factory"
    /\ doc[5].t = "amms["
    /\ \A i \in 6..(Len(doc) - 2) : doc[i].t = "amm"
    /\ doc[Len(doc) - 1].t = "]"
    /\ doc[Len(doc)].t = "}"

\* serde_json::from_str::<Checkpoint>(doc)
from_str(doc) ==
    IF IsCheckpointDocument(doc)
        THEN [kind |-> "Ok",
              value |-> [timestamp |-> FromDigits(doc[2].v, 10),
                         block_number |-> FromDigits(doc[3].v, 10),
                         factory |-> DeserializeFactory(doc[4].v),
                         amms |-> [i \in 1..(Len(doc) - 7) |-> DeserializePool(doc[5 + i].v)]],
              cause |-> ""]
    ELSE [kind |-> "Err", value |-> NoCheckpoint, cause |-> "Parse"]

\* sync.rs:37-40: read_to_string(path)? then serde_json::from_str(..)?; both
\* errors become a CheckpointError
read_from_path(f) ==
    IF ~f.exists THEN [kind |-> "Err", value |-> NoCheckpoint, cause |-> "NotFound"]
    ELSE from_str(f.content)

NoFile == [exists |-> FALSE, content |-> <<>>]
NotRead == [kind |-> "none", value |-> NoCheckpoint, cause |-> ""]

StoreIdle ==
    /\ file = NoFile
    /\ sv_self = NoCheckpoint
    /\ sv_buf = <<>>
    /\ sv_result = "none"
    /\ sv_pc = "idle"
    /\ sv_previous = NoCheckpoint
    /\ rd_result = NotRead

\* the checkpoints the caller saves
CheckpointPools ==
    {PoolFromTuple(PopulatedTuple, 1, FACTORY_FEE),
     PoolFromTuple([PopulatedTuple EXCEPT !.reserve_0 = 160, !.reserve_1 = 255],
                   26, FACTORY_FEE)}
CheckpointAmms ==
    {<<>>} \cup {<<p>> : p \in CheckpointPools}
           \cup {pq \in CheckpointPools \X CheckpointPools : pq[1] # pq[2]}
Checkpoints ==
    [timestamp : 1..MaxTimestamp, block_number : {10},
     factory : {[address |-> 92, creation_block |-> CREATION_BLOCK, fee |-> FACTORY_FEE]},
     amms : CheckpointAmms]

\* sync.rs:43: the document is built, then std::fs::write opens the file,
\* which creates it or truncates it to length 0
SaveBegin(c) ==
    /\ sv_pc = "idle"
    /\ sv_self' = c
    /\ sv_buf' = to_string_pretty(c)
    /\ sv_previous' = IF read_from_path(file).kind = "Ok"
                        THEN read_from_path(file).value ELSE NoCheckpoint
    /\ file' = [exists |-> TRUE, content |-> <<>>]
    /\ sv_pc' = "writing"
    /\ UNCHANGED <<sv_result, rd_result>>

\* std::fs::write, write_all: one write call takes the next n pieces
SaveWrite(n) ==
    /\ sv_pc = "writing"
    /\ n \in 1..(Len(sv_buf) - Len(file.content))
    /\ file' = [file EXCEPT !.content =
                    @ \o SubSeq(sv_buf, Len(@) + 1, Len(@) + n)]
    /\ UNCHANGED <<sv_self, sv_buf, sv_result, sv_pc, sv_previous, rd_result>>

\* sync.rs:43-44: everything is written, save_to_path returns Ok(())
SaveReturnsOk ==
    /\ sv_pc = "writing"
    /\ Len(file.content) = Len(sv_buf)
    /\ sv_result' = "Ok"
    /\ sv_pc' = "idle"
    /\ UNCHANGED <<file, sv_self, sv_buf, sv_previous, rd_result>>

\* sync.rs:43: a write call fails (disk full, ...), `?` returns the error
SaveReturnsErr ==
    /\ sv_pc = "writing"
    /\ Len(file.content) < Len(sv_buf)
    /\ sv_result' = "Err"
    /\ sv_pc' = "idle"
    /\ UNCHANGED <<file, sv_self, sv_buf, sv_previous, rd_result>>

\* sync.rs:37-40: another process reads the path
Read ==
    /\ rd_result.kind = "none"
    /\ rd_result' = read_from_path(file)
    /\ UNCHANGED <<file, sv_self, sv_buf, sv_result, sv_pc, sv_previous>>

\* sync.rs:38: read_to_string fails on a file that exists (permissions, ...)
ReadIoError ==
    /\ rd_result.kind = "none"
    /\ file.exists
    /\ rd_result' = [kind |-> "Err", value |-> NoCheckpoint, cause |-> "Io"]
    /\ UNCHANGED <<file, sv_self, sv_buf, sv_result, sv_pc, sv_previous>>

\* the reader is done with the result
ReadResultDropped ==
    /\ rd_result.kind # "none"
    /\ rd_result' = NotRead
    /\ UNCHANGED <<file, sv_self, sv_buf, sv_result, sv_pc, sv_previous>>

\* ------------------------------ one call of a pure function

NotCalled == [kind |-> "none", value |-> <<>>, err |-> ""]

CallIdle ==
    /\ call_fn = ""
    /\ call_args = <<>>
    /\ call_result = NotCalled
    /\ call_steps = <<>>

CheckpointNone ==
    /\ checkpoint_block = -1
    /\ checkpoint_amms = <<>>

\* the chain at the factory's creation block
ChainAtCreation ==
    /\ head = CREATION_BLOCK
    /\ registry = <<>>
    /\ pool_data = <<>>

\* ------------------------------ sync_all_uniswap_v2_pools_concurrent

IndexRunIdle ==
    /\ ix_current_block = 0
    /\ ix_pairs_length = 0
    /\ ix_step = 1
    /\ ix_futures = <<>>
    /\ ix_results = <<>>
    /\ ix_pools = <<>>
    /\ ix_err = ""
    /\ ix_overtaken = FALSE
    /\ ix_pc = "idle"

\* sync.rs:52-56: read the block number
IndexReadBlock(step) ==
    /\ ix_pc = "idle"
    /\ ix_step' = step
    /\ ix_current_block' = head
    /\ ix_pc' = "block_read"
    /\ UNCHANGED <<ix_pairs_length, ix_futures, ix_results, ix_pools, ix_err,
                   ix_overtaken, chainVars>>

\* sync.rs:58-75: read the pair count, build one future per window
IndexReadLength ==
    /\ ix_pc = "block_read"
    /\ ix_pairs_length' = allPairsLength
    /\ ix_futures' = Windows(0, allPairsLength, ix_step)
    /\ ix_results' = [k \in 1..Len(Windows(0, allPairsLength, ix_step)) |-> Pending]
    /\ ix_pc' = "joined"
    /\ UNCHANGED <<ix_current_block, ix_step, ix_pools, ix_err, ix_overtaken, chainVars>>

\* UniswapV2Factory::get_pairs_range, no call failing
get_pairs_range(from, to) ==
    get_uniswap_v2_pool_data_batch_request(
        get_uniswap_v2_pairs_batch_request(from, to), FACTORY_FEE)

\* factory.rs:146-168: window k's calls succeed
IndexWindowOk(k) ==
    /\ ix_pc = "joined"
    /\ ix_results[k].kind = "Pending"
    /\ ix_results' = [ix_results EXCEPT ![k] =
            OkResult(get_pairs_range(ix_futures[k][1], ix_futures[k][2]))]
    /\ ix_overtaken' = (ix_overtaken \/ \E j \in 1..(k - 1) : ix_results[j].kind = "Pending")
    /\ UNCHANGED <<ix_current_block, ix_pairs_length, ix_step, ix_futures,
                   ix_pools, ix_err, ix_pc, chainVars>>

\* factory.rs:155,161: one of window k's calls fails
IndexWindowErr(k, e) ==
    /\ ix_pc = "joined"
    /\ ix_results[k].kind = "Pending"
    /\ ix_results' = [ix_results EXCEPT ![k] = ErrResult(e)]
    /\ ix_overtaken' = (ix_overtaken \/ \E j \in 1..(k - 1) : ix_results[j].kind = "Pending")
    /\ UNCHANGED <<ix_current_block, ix_pairs_length, ix_step, ix_futures,
                   ix_pools, ix_err, ix_pc, chainVars>>

\* the loop over the results with every batch put before the pools collected
RECURSIVE MergeStrict_Prepends(_, _, _)
MergeStrict_Prepends(results, k, acc) ==
    IF k > Len(results) THEN [status |-> "ok", pools |-> acc, err |-> ""]
    ELSE IF results[k].kind = "Ok"
        THEN MergeStrict_Prepends(results, k + 1, results[k].pools \o acc)
    ELSE [status |-> "err", pools |-> <<>>, err |-> results[k].err]

\* sync.rs:79-85: the loop over the results, from result k on: Ok appends,
\* any error is returned
RECURSIVE MergeStrict(_, _, _)
MergeStrict(results, k, acc) ==
    IF k > Len(results) THEN [status |-> "ok", pools |-> acc, err |-> ""]
    ELSE IF results[k].kind = "Ok"
        THEN MergeStrict(results, k + 1, acc \o results[k].pools)
    ELSE [status |-> "err", pools |-> <<>>, err |-> results[k].err]

\* sync.rs:77-89: join_all has every result; merge them and return
IndexMerge ==
    /\ ix_pc = "joined"
    /\ \A k \in 1..Len(ix_results) : ix_results[k].kind # "Pending"
    /\ LET m == MergeStrict(ix_results, 1, <<>>) IN
        /\ ix_pc' = m.status
        /\ ix_pools' = m.pools
        /\ ix_err' = m.err
    /\ UNCHANGED <<ix_current_block, ix_pairs_length, ix_step, ix_futures,
                   ix_results, ix_overtaken, chainVars>>

InitIndex ==
    /\ ChainAtCreation
    /\ PairsIdle
    /\ LogRunIdle
    /\ CheckpointNone
    /\ IndexRunIdle
    /\ WethIdle
    /\ StoreIdle
    /\ CallIdle

NextIndex ==
    \/ MineBlock /\ UNCHANGED <<pairsVars, logVars, indexVars, wethVars, auxVars>>
    \/ \E step \in 1..MaxStep : IndexReadBlock(step) /\ UNCHANGED <<pairsVars, logVars, wethVars, auxVars>>
    \/ IndexReadLength /\ UNCHANGED <<pairsVars, logVars, wethVars, auxVars>>
    \/ \E k \in 1..Len(ix_results) : IndexWindowOk(k) /\ UNCHANGED <<pairsVars, logVars, wethVars, auxVars>>
    \/ \E k \in 1..Len(ix_results), e \in WindowErrors :
            IndexWindowErr(k, e) /\ UNCHANGED <<pairsVars, logVars, wethVars, auxVars>>
    \/ IndexMerge /\ UNCHANGED <<pairsVars, logVars, wethVars, auxVars>>

SpecIndex == InitIndex /\ [][NextIndex]_vars

InitLogs ==
    /\ ChainAtCreation
    /\ PairsIdle
    /\ LogRunIdle
    /\ CheckpointNone
    /\ IndexRunIdle
    /\ WethIdle
    /\ StoreIdle
    /\ CallIdle

NextLogs ==
    \/ MineBlock /\ UNCHANGED <<pairsVars, logVars, indexVars, wethVars, auxVars>>
    \/ \E step \in 1..MaxStep : LogsBegin(StartBlock, step) /\ UNCHANGED <<pairsVars, indexVars, wethVars, auxVars>>
    \/ LogsBeginPanics(StartBlock) /\ UNCHANGED <<pairsVars, indexVars, wethVars, auxVars>>
    \/ \E k \in 1..Len(lg_results) : LogsWindowOk(k) /\ UNCHANGED <<pairsVars, indexVars, wethVars, auxVars>>
    \/ \E k \in 1..Len(lg_results), e \in WindowErrors :
            LogsWindowErr(k, e) /\ UNCHANGED <<pairsVars, indexVars, wethVars, auxVars>>
    \/ LogsMerge /\ UNCHANGED <<pairsVars, indexVars, wethVars, auxVars>>
    \/ CheckpointUpdate /\ UNCHANGED <<pairsVars, indexVars, wethVars, auxVars>>
    \/ CheckpointKept /\ UNCHANGED <<pairsVars, indexVars, wethVars, auxVars>>

SpecLogs == InitLogs /\ [][NextLogs]_vars

\* ------------------------------ a discovery run of either strategy

InitDiscovery ==
    /\ ChainAtCreation
    /\ PairsIdle
    /\ LogRunIdle
    /\ CheckpointNone
    /\ IndexRunIdle
    /\ WethIdle
    /\ StoreIdle
    /\ CallIdle

\* the process runs one strategy: an index-range run on a process that has
\* not run the log-range strategy, or log-range runs on a process that has
\* not started an index-range run
NextDiscovery ==
    \/ MineBlock /\ UNCHANGED <<pairsVars, logVars, indexVars, wethVars, auxVars>>
    \/ \E step \in 1..MaxStep :
            /\ LogRunIdle /\ CheckpointNone
            /\ IndexReadBlock(step) /\ UNCHANGED <<pairsVars, logVars, wethVars, auxVars>>
    \/ IndexReadLength /\ UNCHANGED <<pairsVars, logVars, wethVars, auxVars>>
    \/ \E k \in 1..Len(ix_results) : IndexWindowOk(k) /\ UNCHANGED <<pairsVars, logVars, wethVars, auxVars>>
    \/ \E k \in 1..Len(ix_results), e \in WindowErrors :
            IndexWindowErr(k, e) /\ UNCHANGED <<pairsVars, logVars, wethVars, auxVars>>
    \/ IndexMerge /\ UNCHANGED <<pairsVars, logVars, wethVars, auxVars>>
    \/ \E step \in 1..MaxStep :
            /\ IndexRunIdle
            /\ LogsBegin(StartBlock, step) /\ UNCHANGED <<pairsVars, indexVars, wethVars, auxVars>>
    \/ IndexRunIdle /\ LogsBeginPanics(StartBlock) /\ UNCHANGED <<pairsVars, indexVars, wethVars, auxVars>>
    \/ \E k \in 1..Len(lg_results) : LogsWindowOk(k) /\ UNCHANGED <<pairsVars, indexVars, wethVars, auxVars>>
    \/ \E k \in 1..Len(lg_results), e \in WindowErrors :
            LogsWindowErr(k, e) /\ UNCHANGED <<pairsVars, indexVars, wethVars, auxVars>>
    \/ LogsMerge /\ UNCHANGED <<pairsVars, indexVars, wethVars, auxVars>>
    \/ CheckpointUpdate /\ UNCHANGED <<pairsVars, indexVars, wethVars, auxVars>>
    \/ CheckpointKept /\ UNCHANGED <<pairsVars, indexVars, wethVars, auxVars>>

SpecDiscovery == InitDiscovery /\ [][NextDiscovery]_vars

\* ------------------------------ index-range runs on a chain that stands still

\* the window steps: get_all_pools takes any step, sync.rs uses INDEX_STEP
WindowSteps == (1..MaxWindowStep) \cup {INDEX_STEP}

\* the pair counts: every count up to MaxWindows windows of the small steps,
\* and w - 1, w, w + 1, 10 w for w = INDEX_STEP
WindowPairCounts ==
    (0..(MaxWindows * MaxWindowStep))
        \cup {INDEX_STEP - 1, INDEX_STEP, INDEX_STEP + 1, 10 * INDEX_STEP}

InitWindows ==
    /\ head = 0
    /\ \E n \in WindowPairCounts :
        /\ registry = [i \in 1..n |-> 0]
        /\ pool_data = [i \in 1..n |-> PopulatedTuple]
    /\ PairsIdle
    /\ LogRunIdle
    /\ CheckpointNone
    /\ IndexRunIdle
    /\ WethIdle
    /\ StoreIdle
    /\ CallIdle

\* one index-range run, no call failing, of at most MaxWindows windows
NextWindows ==
    \/ \E step \in WindowSteps :
            /\ allPairsLength <= MaxWindows * step
            /\ IndexReadBlock(step) /\ UNCHANGED <<pairsVars, logVars, wethVars, auxVars>>
    \/ IndexReadLength /\ UNCHANGED <<pairsVars, logVars, wethVars, auxVars>>
    \/ \E k \in 1..Len(ix_results) : IndexWindowOk(k) /\ UNCHANGED <<pairsVars, logVars, wethVars, auxVars>>
    \/ IndexMerge /\ UNCHANGED <<pairsVars, logVars, wethVars, auxVars>>

SpecWindows == InitWindows /\ [][NextWindows]_vars

\* ------------------------------ the checkpoint store

InitStore ==
    /\ ChainAtCreation
    /\ PairsIdle
    /\ LogRunIdle
    /\ CheckpointNone
    /\ IndexRunIdle
    /\ WethIdle
    /\ StoreIdle
    /\ CallIdle

NextStore ==
    \/ \E c \in Checkpoints :
            SaveBegin(c) /\ UNCHANGED <<chainVars, pairsVars, logVars, indexVars, wethVars, callVars>>
    \/ \E n \in 1..Len(sv_buf) :
            SaveWrite(n) /\ UNCHANGED <<chainVars, pairsVars, logVars, indexVars, wethVars, callVars>>
    \/ SaveReturnsOk /\ UNCHANGED <<chainVars, pairsVars, logVars, indexVars, wethVars, callVars>>
    \/ SaveReturnsErr /\ UNCHANGED <<chainVars, pairsVars, logVars, indexVars, wethVars, callVars>>
    \/ Read /\ UNCHANGED <<chainVars, pairsVars, logVars, indexVars, wethVars, callVars>>
    \/ ReadIoError /\ UNCHANGED <<chainVars, pairsVars, logVars, indexVars, wethVars, callVars>>
    \/ ReadResultDropped /\ UNCHANGED <<chainVars, pairsVars, logVars, indexVars, wethVars, callVars>>

SpecStore == InitStore /\ [][NextStore]_vars

\* ------------------------------ get_uniswap_v2_pool_data_batch_request

\* the tuples a response may hold: the chain's, and one whose decimals word
\* is beyond the uint8 the ABI declares
ResponseTuples ==
    ChainTuples \cup {[PopulatedTuple EXCEPT !.token_a_decimals = 262]}

\* the sequences of at most n elements of S
SeqsUpTo(S, n) == UNION {[1..k -> S] : k \in 0..n}

\* the calls: up to MaxBatch addresses, and a response of up to one tuple
\* more than that
PoolDataCalls ==
    [pair_addresses : SeqsUpTo(1..MaxBatch, MaxBatch),
     fee : {FACTORY_FEE, 30},
     return_data : {CallError, Undecodable}
        \cup {Decodable(ts) : ts \in SeqsUpTo(ResponseTuples, MaxBatch + 1)}]

InitPoolData ==
    /\ ChainAtCreation
    /\ PairsIdle
    /\ LogRunIdle
    /\ CheckpointNone
    /\ IndexRunIdle
    /\ WethIdle
    /\ StoreIdle
    /\ call_fn = "get_uniswap_v2_pool_data_batch_request"
    /\ call_args \in PoolDataCalls
    /\ call_result = NotCalled
    /\ call_steps = <<>>

\* the call returns (or panics)
PoolDataCallReturns ==
    /\ call_fn = "get_uniswap_v2_pool_data_batch_request"
    /\ call_result = NotCalled
    /\ call_result' = pool_data_from_return_data(
            call_args.pair_addresses, call_args.fee, call_args.return_data)
    /\ UNCHANGED <<call_fn, call_args, call_steps>>

NextPoolData ==
    PoolDataCallReturns
        /\ UNCHANGED <<chainVars, pairsVars, logVars, indexVars, wethVars, storeVars>>

SpecPoolData == InitPoolData /\ [][NextPoolData]_vars

\* ------------------------------ get_uniswap_v2_pairs_batch_request

\* the arrays the pairs batch call may return: addresses, zero among them,
\* in any place and any number of times
PairsResponses == SeqsUpTo({ZERO_ADDRESS} \cup (1..MaxBatch), MaxResponse)

InitPairsResponse ==
    /\ ChainAtCreation
    /\ PairsIdle
    /\ LogRunIdle
    /\ CheckpointNone
    /\ IndexRunIdle
    /\ WethIdle
    /\ StoreIdle
    /\ call_fn = "get_uniswap_v2_pairs_batch_request"
    /\ call_args \in [response : PairsResponses]
    /\ call_result = NotCalled
    /\ call_steps = <<>>

\* batch_request/mod.rs:183-206: the response decoded, the call returns
PairsResponseCallReturns ==
    /\ call_fn = "get_uniswap_v2_pairs_batch_request"
    /\ call_result = NotCalled
    /\ call_result' = CallOk(pairs_from_response(call_args.response))
    /\ UNCHANGED <<call_fn, call_args, call_steps>>

NextPairsResponse ==
    PairsResponseCallReturns
        /\ UNCHANGED <<chainVars, pairsVars, logVars, indexVars, wethVars, storeVars>>

SpecPairsResponse == InitPairsResponse /\ [][NextPairsResponse]_vars

\* ------------------------------ simulate_swap / get_amount_out

\* U256 `*` and `+`: the result, or a panic when it does not fit the word
CheckedMul(a, b) == IF a * b > WORD_MAX THEN CallPanic ELSE CallOk(a * b)
CheckedAdd(a, b) == IF a + b > WORD_MAX THEN CallPanic ELSE CallOk(a + b)

\* mod.rs:130  (10000 - (self.fee / 10)) / 10
FeeFactor(fee) == (10000 - (fee \div 10)) \div 10

\* the panic of the U256 division by zero
DivideByZero == [kind |-> "Panic", value |-> <<>>, err |-> "divide by zero"]

\* get_amount_out with an early return on a zero amount_in only
get_amount_out_ChecksAmountOnly(fee, amount_in, reserve_in, reserve_out) ==
    IF amount_in = 0 THEN CallOk(0)
    ELSE LET amount_in_with_fee == CheckedMul(amount_in, FeeFactor(fee)) IN
        IF amount_in_with_fee.kind = "Panic" THEN CallPanic
        ELSE LET numerator == CheckedMul(amount_in_with_fee.value, reserve_out)
                 scaled_reserve == CheckedMul(reserve_in, 1000) IN
            IF numerator.kind = "Panic" \/ scaled_reserve.kind = "Panic" THEN CallPanic
            ELSE LET denominator ==
                        CheckedAdd(scaled_reserve.value, amount_in_with_fee.value) IN
                IF denominator.kind = "Panic" THEN CallPanic
                ELSE IF denominator.value = 0 THEN DivideByZero
                ELSE CallOk(numerator.value \div denominator.value)

\* mod.rs:126-136: zero on a zero amount or reserve, else the quotient; the
\* products and the sum panic on overflow, the division on a zero divisor
get_amount_out(fee, amount_in, reserve_in, reserve_out) ==
    IF amount_in = 0 \/ reserve_in = 0 \/ reserve_out = 0 THEN CallOk(0)
    ELSE LET amount_in_with_fee == CheckedMul(amount_in, FeeFactor(fee)) IN
        IF amount_in_with_fee.kind = "Panic" THEN CallPanic
        ELSE LET numerator == CheckedMul(amount_in_with_fee.value, reserve_out)
                 scaled_reserve == CheckedMul(reserve_in, 1000) IN
            IF numerator.kind = "Panic" \/ scaled_reserve.kind = "Panic" THEN CallPanic
            ELSE LET denominator ==
                        CheckedAdd(scaled_reserve.value, amount_in_with_fee.value) IN
                IF denominator.kind = "Panic" THEN CallPanic
                ELSE IF denominator.value = 0 THEN DivideByZero
                ELSE CallOk(numerator.value \div denominator.value)

\* simulate_swap with an error for a token that is neither token of the pool
simulate_swap_RejectsForeignToken(pool, token_in, amount_in) ==
    IF pool.token_a = token_in
        THEN get_amount_out(pool.fee, amount_in, pool.reserve_0, pool.reserve_1)
    ELSE IF pool.token_b = token_in
        THEN get_amount_out(pool.fee, amount_in, pool.reserve_1, pool.reserve_0)
    ELSE CallErr("SwapSimulationError")

\* mod.rs:106-124: the reserves taken by the token given
simulate_swap(pool, token_in, amount_in) ==
    IF pool.token_a = token_in
        THEN get_amount_out(pool.fee, amount_in, pool.reserve_0, pool.reserve_1)
    ELSE get_amount_out(pool.fee, amount_in, pool.reserve_1, pool.reserve_0)

\* the amounts: the small ones, the last that the fee factor of fee 300 does
\* not push over the word, the next one, and the largest
AmountsIn ==
    (0..MaxAmountIn)
        \cup {WORD_MAX \div FeeFactor(FACTORY_FEE),
              WORD_MAX \div FeeFactor(FACTORY_FEE) + 1, WORD_MAX}
Reserves == (0..MaxReserve) \cup {RESERVE_MAX}
SwapCalls ==
    [pool : [address : {1}, token_a : {11}, token_a_decimals : {6}, token_b : {12},
             token_b_decimals : {18}, reserve_0 : Reserves, reserve_1 : Reserves,
             fee : {0, 30, FACTORY_FEE, 10000}],
     token_in : {11, 12, 13},
     amount_in : AmountsIn]

InitSwap ==
    /\ ChainAtCreation
    /\ PairsIdle
    /\ LogRunIdle
    /\ CheckpointNone
    /\ IndexRunIdle
    /\ WethIdle
    /\ StoreIdle
    /\ call_fn = "simulate_swap"
    /\ call_args \in SwapCalls
    /\ call_result = NotCalled
    /\ call_steps = <<>>

\* the call returns (or panics)
SwapCallReturns ==
    /\ call_fn = "simulate_swap"
    /\ call_result = NotCalled
    /\ call_result' = simulate_swap(call_args.pool, call_args.token_in, call_args.amount_in)
    /\ UNCHANGED <<call_fn, call_args, call_steps>>

NextSwap ==
    SwapCallReturns
        /\ UNCHANGED <<chainVars, pairsVars, logVars, indexVars, wethVars, storeVars>>

SpecSwap == InitSwap /\ [][NextSwap]_vars

\* ------------------------------ calculate_price_64_x_64

\* large_int_maths: the fixed-point representation of 1.0
U128_0X10000000000000000 == 2 ^ FRACTION_BITS

\* a value type-cast from u8 to i8
AsI8(d) == IF d >= 128 THEN d - 256 ELSE d

\* the value an i8 operation wraps to
WrapI8(v) == ((v + 128) % 256) - 128

\* an i8 subtraction leaves the i8
I8SubOverflows(x, y) == x - y < -128 \/ x - y > 127

\* mod.rs:139: token_a_decimals as i8 - token_b_decimals as i8; on overflow
\* the subtraction panics in a build with overflow checks and wraps in one
\* without
decimal_shift(pool, overflow_checks) ==
    LET x == AsI8(pool.token_a_decimals)
        y == AsI8(pool.token_b_decimals)
    IN  IF I8SubOverflows(x, y) /\ overflow_checks THEN CallPanic
        ELSE CallOk(WrapI8(x - y))

\* i8::unsigned_abs
unsigned_abs(v) == IF v < 0 THEN 0 - v ELSE v

\* the largest u128
U128_MAX == 2 ^ U128_BITS - 1

\* 10^n, or the first value above the u128 when 10^n is beyond it (as it is
\* from n = the bits of the u128 on, 10^n being above 2^n)
RECURSIVE Pow10Saturating(_)
Pow10Saturating(n) ==
    IF n = 0 THEN 1
    ELSE IF n >= U128_BITS THEN U128_MAX + 1
    ELSE LET below == Pow10Saturating(n - 1) IN Min(below * 10, U128_MAX + 1)

Pow10Overflows(n) == Pow10Saturating(n) > U128_MAX

\* 10^n in wrapping u128 multiplication (zero from n = the bits of the u128
\* on, 2^n dividing 10^n)
RECURSIVE Pow10Wrapping(_)
Pow10Wrapping(n) ==
    IF n = 0 THEN 1
    ELSE IF n >= U128_BITS THEN 0
    ELSE (Pow10Wrapping(n - 1) * 10) % (U128_MAX + 1)

\* mod.rs:144,150: 10u128.pow(n); on overflow it panics in a build with
\* overflow checks and wraps in one without
pow10(n, overflow_checks) ==
    IF Pow10Overflows(n) /\ overflow_checks THEN CallPanic
    ELSE CallOk(Pow10Wrapping(n))

\* mod.rs:139-152: (r_0, r_1), reserve_0 multiplied by the power for a
\* negative shift, reserve_1 otherwise
NormalizedReserves(pool, overflow_checks) ==
    LET shift == decimal_shift(pool, overflow_checks) IN
    IF shift.kind = "Panic" THEN CallPanic
    ELSE LET power == pow10(unsigned_abs(shift.value), overflow_checks) IN
        IF power.kind = "Panic" THEN CallPanic
        ELSE IF shift.value < 0
            THEN LET r_0 == CheckedMul(pool.reserve_0, power.value) IN
                 IF r_0.kind = "Panic" THEN CallPanic
                 ELSE CallOk(<<r_0.value, pool.reserve_1>>)
        ELSE LET r_1 == CheckedMul(pool.reserve_1, power.value) IN
             IF r_1.kind = "Panic" THEN CallPanic
             ELSE CallOk(<<pool.reserve_0, r_1.value>>)

\* what div_uu may return for a quotient beyond the u128
DivOverflowResults == {CallErr("ArithmeticError"), CallOk(0)}

\* large_int_maths::div_uu: the quotient of x shifted left by the fractional
\* bits over y
div_uu(x, y, div_overflow) ==
    IF y = 0 THEN CallErr("ArithmeticError")
    ELSE IF (x * U128_0X10000000000000000) \div y > U128_MAX THEN div_overflow
    ELSE CallOk((x * U128_0X10000000000000000) \div y)

\* calculate_price_64_x_64 with a zero price for an empty base reserve
calculate_price_64_x_64_ZeroOnEmptyBase(pool, base_token, overflow_checks, div_overflow) ==
    LET r == NormalizedReserves(pool, overflow_checks) IN
    IF r.kind = "Panic" THEN CallPanic
    ELSE IF base_token = pool.token_a
        THEN IF r.value[1] = 0 THEN CallOk(0)
             ELSE div_uu(r.value[2], r.value[1], div_overflow)
    ELSE IF r.value[2] = 0 THEN CallOk(0)
    ELSE div_uu(r.value[1], r.value[2], div_overflow)

\* mod.rs:138-165
calculate_price_64_x_64(pool, base_token, overflow_checks, div_overflow) ==
    LET r == NormalizedReserves(pool, overflow_checks) IN
    IF r.kind = "Panic" THEN CallPanic
    ELSE IF base_token = pool.token_a
        THEN IF r.value[1] = 0 THEN CallOk(U128_0X10000000000000000)
             ELSE div_uu(r.value[2], r.value[1], div_overflow)
    ELSE IF r.value[2] = 0 THEN CallOk(U128_0X10000000000000000)
    ELSE div_uu(r.value[1], r.value[2], div_overflow)

\* mod.rs:154,160: the normalized reserve of the base token
BaseReserve(r, pool, base_token) == IF base_token = pool.token_a THEN r[1] ELSE r[2]

Decimals == (0..MaxDecimals) \cup {18, 127, 128, 250, 255}

\* the calls: a pool, a base token, whether the build checks integer
\* overflow, and what div_uu returns for a quotient beyond the u128
PriceCalls ==
    [pool : [address : {1}, token_a : {11}, token_a_decimals : Decimals,
             token_b : {12}, token_b_decimals : Decimals,
             reserve_0 : Reserves, reserve_1 : Reserves, fee : {FACTORY_FEE}],
     base_token : {11, 12, 13},
     overflow_checks : BOOLEAN,
     div_overflow : DivOverflowResults]

InitPrice ==
    /\ ChainAtCreation
    /\ PairsIdle
    /\ LogRunIdle
    /\ CheckpointNone
    /\ IndexRunIdle
    /\ WethIdle
    /\ StoreIdle
    /\ call_fn = "calculate_price_64_x_64"
    /\ call_args \in PriceCalls
    /\ call_result = NotCalled
    /\ call_steps = <<>>

\* mod.rs:139-152: the reserves are normalized, or the call panics
PriceNormalizes ==
    /\ call_fn = "calculate_price_64_x_64"
    /\ call_result = NotCalled
    /\ LET r == NormalizedReserves(call_args.pool, call_args.overflow_checks) IN
        call_result' = IF r.kind = "Panic" THEN CallPanic
                       ELSE [kind |-> "Normalized", value |-> r.value, err |-> ""]
    /\ UNCHANGED <<call_fn, call_args, call_steps>>

\* mod.rs:155-156,160-161: the base reserve is zero, the call returns
PriceReturnsOne ==
    /\ call_fn = "calculate_price_64_x_64"
    /\ call_result.kind = "Normalized"
    /\ BaseReserve(call_result.value, call_args.pool, call_args.base_token) = 0
    /\ call_result' = calculate_price_64_x_64(call_args.pool, call_args.base_token,
                            call_args.overflow_checks, call_args.div_overflow)
    /\ UNCHANGED <<call_fn, call_args, call_steps>>

\* mod.rs:158,163: the call returns what div_uu returns
PriceDivides ==
    /\ call_fn = "calculate_price_64_x_64"
    /\ call_result.kind = "Normalized"
    /\ BaseReserve(call_result.value, call_args.pool, call_args.base_token) # 0
    /\ call_steps' = Append(call_steps, "div_uu")
    /\ call_result' = calculate_price_64_x_64(call_args.pool, call_args.base_token,
                            call_args.overflow_checks, call_args.div_overflow)
    /\ UNCHANGED <<call_fn, call_args>>

NextPrice ==
    \/ PriceNormalizes
        /\ UNCHANGED <<chainVars, pairsVars, logVars, indexVars, wethVars, storeVars>>
    \/ PriceReturnsOne
        /\ UNCHANGED <<chainVars, pairsVars, logVars, indexVars, wethVars, storeVars>>
    \/ PriceDivides
        /\ UNCHANGED <<chainVars, pairsVars, logVars, indexVars, wethVars, storeVars>>

SpecPrice == InitPrice /\ [][NextPrice]_vars

\* ------------------------------ one call of a function of the pool

InitPool == InitSwap \/ InitPrice

NextPool ==
    \/ SwapCallReturns
        /\ UNCHANGED <<chainVars, pairsVars, logVars, indexVars, wethVars, storeVars>>
    \/ PriceNormalizes
        /\ UNCHANGED <<chainVars, pairsVars, logVars, indexVars, wethVars, storeVars>>
    \/ PriceReturnsOne
        /\ UNCHANGED <<chainVars, pairsVars, logVars, indexVars, wethVars, storeVars>>
    \/ PriceDivides
        /\ UNCHANGED <<chainVars, pairsVars, logVars, indexVars, wethVars, storeVars>>

SpecPool == InitPool /\ [][NextPool]_vars

\* ------------------------------ get_weth_value_in_pools

WethPending == [kind |-> "Pending", values |-> <<>>, err |-> "", batch |-> <<>>, cause |-> ""]

\* what the chain does with one batch call: the call fails (too large to
\* execute, or a transport failure), its return data does not decode, or it
\* returns one value per address
CallFailures == {"too_large", "transport"}
Outcomes(addresses) ==
    [kind : {"call_error"}, cause : CallFailures, vals : {<<>>}]
    \cup [kind : {"decode_error"}, cause : {""}, vals : {<<>>}]
    \cup [kind : {"response"}, cause : {""},
          vals : [1..Len(addresses) -> 1..MaxWethValue]]

\* HashMap::extend
Extend(map, other) ==
    [a \in (DOMAIN map) \cup (DOMAIN other) |->
        IF a \in DOMAIN other THEN other[a] ELSE map[a]]

\* batch_request.rs:200-210: the map from addresses[idx] to the idx-th value
ValuesByAddress(addresses, vals) ==
    [a \in {addresses[idx] : idx \in 1..Len(vals)} |->
        vals[CHOOSE idx \in 1..Len(vals) :
                /\ addresses[idx] = a
                /\ \A j \in 1..Len(vals) : addresses[j] = a => j <= idx]]

\* batch_request.rs:174-216: every error of call_raw becomes
\* OutOfGasError(addresses); a decode error is returned as it is
get_weth_value_in_pool_batch_request(addresses, outcome) ==
    IF outcome.kind = "call_error"
        THEN [kind |-> "Err", values |-> <<>>, err |-> "OutOfGasError",
              batch |-> addresses, cause |-> outcome.cause]
    ELSE IF outcome.kind = "decode_error"
        THEN [kind |-> "Err", values |-> <<>>, err |-> "EthABIError",
              batch |-> <<>>, cause |-> ""]
    ELSE [kind |-> "Ok", values |-> ValuesByAddress(addresses, outcome.vals),
          err |-> "", batch |-> <<>>, cause |-> ""]

\* batch_request.rs:236-244: addresses[i..(i + step).min(len)] for i in
\* (0..len).step_by(step)
WethWindows(addresses, step) ==
    [k \in 1..Len(Windows(0, Len(addresses), step)) |->
        SubSeq(addresses, Windows(0, Len(addresses), step)[k][1] + 1,
                          Windows(0, Len(addresses), step)[k][2])]

\* batch_request.rs:225-246: one future per window, all joined
WethBegin(addresses, step) ==
    /\ weth_pc = "idle"
    /\ weth_addresses' = addresses
    /\ weth_step' = step
    /\ weth_futures' = WethWindows(addresses, step)
    /\ weth_results' = [k \in 1..Len(WethWindows(addresses, step)) |-> WethPending]
    /\ weth_round' = 1
    /\ weth_pc' = "round1"
    /\ UNCHANGED <<weth_values_in_pools, failed_addresses, retry_futures,
                   retry_results, weth_err>>

\* the call of first-round window k completes
WethCallReturns(k, outcome) ==
    /\ weth_pc = "round1"
    /\ weth_results[k].kind = "Pending"
    /\ weth_results' = [weth_results EXCEPT ![k] =
            get_weth_value_in_pool_batch_request(weth_futures[k], outcome)]
    /\ UNCHANGED <<weth_addresses, weth_step, weth_futures, weth_values_in_pools,
                   failed_addresses, retry_futures, retry_results, weth_round,
                   weth_err, weth_pc>>

\* the first-round loop with an OutOfGasError arm that records nothing
RECURSIVE MergeFirstRound_DropsFailed(_, _, _, _)
MergeFirstRound_DropsFailed(results, k, values, failed) ==
    IF k > Len(results)
        THEN [status |-> "ok", values |-> values, failed |-> failed, err |-> ""]
    ELSE IF results[k].kind = "Ok"
        THEN MergeFirstRound_DropsFailed(results, k + 1,
                                         Extend(values, results[k].values), failed)
    ELSE IF results[k].err = "OutOfGasError"
        THEN MergeFirstRound_DropsFailed(results, k + 1, values, failed)
    ELSE [status |-> "err", values |-> values, failed |-> failed, err |-> results[k].err]

\* batch_request.rs:249-259: the loop over the first round's results, from
\* result k on: Ok extends the map, OutOfGasError(batch) extends the failed
\* addresses, any other error is returned
RECURSIVE MergeFirstRound(_, _, _, _)
MergeFirstRound(results, k, values, failed) ==
    IF k > Len(results)
        THEN [status |-> "ok", values |-> values, failed |-> failed, err |-> ""]
    ELSE IF results[k].kind = "Ok"
        THEN MergeFirstRound(results, k + 1, Extend(values, results[k].values), failed)
    ELSE IF results[k].err = "OutOfGasError"
        THEN MergeFirstRound(results, k + 1, values, failed \o results[k].batch)
    ELSE [status |-> "err", values |-> values, failed |-> failed, err |-> results[k].err]

\* a retry that splits the failed addresses at their midpoint into two calls
RetryFutures_Bisect(failed) ==
    IF Len(failed) <= 1 THEN [k \in 1..Len(failed) |-> <<failed[k]>>]
    ELSE <<SubSeq(failed, 1, Len(failed) \div 2),
           SubSeq(failed, Len(failed) \div 2 + 1, Len(failed))>>

\* batch_request.rs:261-270: one call of a single address per failed address
RetryFutures(failed) == [k \in 1..Len(failed) |-> <<failed[k]>>]

\* batch_request.rs:247-272: merge the first round, issue the retry calls
WethMergeFirstRound ==
    /\ weth_pc = "round1"
    /\ \A k \in 1..Len(weth_results) : weth_results[k].kind # "Pending"
    /\ LET m == MergeFirstRound(weth_results, 1, <<>>, <<>>) IN
        /\ weth_values_in_pools' = m.values
        /\ failed_addresses' = m.failed
        /\ IF m.status = "err"
            THEN /\ weth_pc' = "err"
                 /\ weth_err' = m.err
                 /\ UNCHANGED <<retry_futures, retry_results, weth_round>>
            ELSE /\ weth_pc' = "retry"
                 /\ weth_round' = 2
                 /\ retry_futures' = RetryFutures(m.failed)
                 /\ retry_results' = [k \in 1..Len(RetryFutures(m.failed)) |-> WethPending]
                 /\ UNCHANGED weth_err
    /\ UNCHANGED <<weth_addresses, weth_step, weth_futures, weth_results>>

\* the retry call k completes
WethRetryReturns(k, outcome) ==
    /\ weth_pc = "retry"
    /\ retry_results[k].kind = "Pending"
    /\ retry_results' = [retry_results EXCEPT ![k] =
            get_weth_value_in_pool_batch_request(retry_futures[k], outcome)]
    /\ UNCHANGED <<weth_addresses, weth_step, weth_futures, weth_results,
                   weth_values_in_pools, failed_addresses, retry_futures,
                   weth_round, weth_err, weth_pc>>

\* the retry loop with an error arm that skips the result
RECURSIVE MergeRetryRound_SkipsErr(_, _, _)
MergeRetryRound_SkipsErr(results, k, values) ==
    IF k > Len(results) THEN [status |-> "ok", values |-> values, err |-> ""]
    ELSE IF results[k].kind = "Ok"
        THEN MergeRetryRound_SkipsErr(results, k + 1, Extend(values, results[k].values))
    ELSE MergeRetryRound_SkipsErr(results, k + 1, values)

\* batch_request.rs:273-280: the loop over the retry results, from result k
\* on: Ok extends the map, any error is returned
RECURSIVE MergeRetryRound(_, _, _)
MergeRetryRound(results, k, values) ==
    IF k > Len(results) THEN [status |-> "ok", values |-> values, err |-> ""]
    ELSE IF results[k].kind = "Ok"
        THEN MergeRetryRound(results, k + 1, Extend(values, results[k].values))
    ELSE [status |-> "err", values |-> values, err |-> results[k].err]

\* batch_request.rs:271-282: merge the retry round and return
WethMergeRetryRound ==
    /\ weth_pc = "retry"
    /\ \A k \in 1..Len(retry_results) : retry_results[k].kind # "Pending"
    /\ LET m == MergeRetryRound(retry_results, 1, weth_values_in_pools) IN
        /\ weth_values_in_pools' = m.values
        /\ weth_pc' = m.status
        /\ weth_err' = m.err
    /\ UNCHANGED <<weth_addresses, weth_step, weth_futures, weth_results,
                   failed_addresses, retry_futures, retry_results, weth_round>>

\* the address lists the function is run on: n distinct pool addresses
AddressLists == {[i \in 1..n |-> i] : n \in 0..MaxAddresses}

InitWeth ==
    /\ ChainAtCreation
    /\ PairsIdle
    /\ LogRunIdle
    /\ CheckpointNone
    /\ IndexRunIdle
    /\ WethIdle
    /\ StoreIdle
    /\ CallIdle

NextWeth ==
    \/ \E addresses \in AddressLists, step \in 1..MaxWethStep :
            WethBegin(addresses, step) /\ UNCHANGED <<chainVars, pairsVars, logVars, indexVars, auxVars>>
    \/ \E k \in 1..Len(weth_results) : \E outcome \in Outcomes(weth_futures[k]) :
            WethCallReturns(k, outcome) /\ UNCHANGED <<chainVars, pairsVars, logVars, indexVars, auxVars>>
    \/ WethMergeFirstRound /\ UNCHANGED <<chainVars, pairsVars, logVars, indexVars, auxVars>>
    \/ \E k \in 1..Len(retry_results) : \E outcome \in Outcomes(retry_futures[k]) :
            WethRetryReturns(k, outcome) /\ UNCHANGED <<chainVars, pairsVars, logVars, indexVars, auxVars>>
    \/ WethMergeRetryRound /\ UNCHANGED <<chainVars, pairsVars, logVars, indexVars, auxVars>>

SpecWeth == InitWeth /\ [][NextWeth]_vars

\* the pair counts the enumeration is run on
PairCounts == (0..MaxPairsLength) \cup {10 * PAIRS_STEP}

InitPairs ==
    /\ head = 0
    /\ \E n \in PairCounts : registry = [i \in 1..n |-> 0]
    /\ pool_data = <<>>
    /\ PairsIdle
    /\ LogRunIdle
    /\ CheckpointNone
    /\ IndexRunIdle
    /\ WethIdle
    /\ StoreIdle
    /\ CallIdle

NextPairs ==
    \/ PairsBegin /\ UNCHANGED <<logVars, indexVars, wethVars, auxVars>>
    \/ PairsBatchCall /\ UNCHANGED <<logVars, indexVars, wethVars, auxVars>>
    \/ PairsBatchCallFails /\ UNCHANGED <<logVars, indexVars, wethVars, auxVars>>
    \/ PairsReturn /\ UNCHANGED <<logVars, indexVars, wethVars, auxVars>>

SpecPairs == InitPairs /\ [][NextPairs]_vars

\* ------------------------------------------------------------------ properties

\* the indices covered by the half-open windows issued
IssuedIndices ==
    {i \in 0..(pairs_length - 1) :
        \E k \in 1..Len(pa_calls) : pa_calls[k][1] <= i /\ i < pa_calls[k][2]}

\* C1: a run that returns Ok has issued windows whose union is [0, N) and
\* returns exactly N addresses when every index below N holds a pair.
C1_AllPairsReturned ==
    pa_pc = "ok" =>
        /\ IssuedIndices = 0..(pairs_length - 1)
        /\ Len(pairs) = pairs_length

\* the addresses of a pool list
Addresses(ps) == {ps[k].address : k \in 1..Len(ps)}

\* how often address a occurs in a pool list
Occurrences(ps, a) == Cardinality({k \in 1..Len(ps) : ps[k].address = a})

\* C2: the pool list of an Ok log-range run from block s to head h holds the
\* pool of every creation event of blocks s..h exactly once.
C2_EveryEventExactlyOnce ==
    lg_pc = "ok" =>
        \A a \in 1..Len(registry) :
            (sync_block <= registry[a] /\ registry[a] <= current_block)
                => Occurrences(lg_pools, a) = 1

\* C3: over the resyncs, each started at the checkpoint's block number + 1,
\* every creation event of a block up to the checkpoint's block number has
\* been returned by some run.
C3_NoBlockSkipped ==
    checkpoint_block >= 0 =>
        \A a \in 1..Len(registry) :
            registry[a] <= checkpoint_block
                => \E k \in 1..Len(checkpoint_amms) : checkpoint_amms[k] = a

\* C4: every pool of the list a discovery run returns is populated.
C4_ReturnedPoolsPopulated ==
    lg_pc = "ok" => \A k \in 1..Len(lg_pools) : data_is_populated(lg_pools[k])

\* a pool whose tokens are set and one of whose reserves is zero
HasZeroReserve(pool) ==
    /\ pool.token_a # ZERO_ADDRESS
    /\ pool.token_b # ZERO_ADDRESS
    /\ (pool.reserve_0 = 0 \/ pool.reserve_1 = 0)

\* window result `ps` holds one pool with a zero reserve and, besides it,
\* populated pools only (at least one)
OneZeroReserveAmongPopulated(ps) ==
    /\ Cardinality({i \in 1..Len(ps) : HasZeroReserve(ps[i])}) = 1
    /\ \A i \in 1..Len(ps) : HasZeroReserve(ps[i]) \/ data_is_populated(ps[i])
    /\ \E i \in 1..Len(ps) : data_is_populated(ps[i])

\* C5: when a window of a run whose calls all succeed holds one address with a
\* zero reserve among populated ones, the run returns Ok, its list holds the
\* populated pools of every window, and the unpopulated pool is not in it.
C5_OnlyUnpopulatedDropped ==
    \A k \in 1..Len(lg_results) :
        (/\ lg_pc \in {"ok", "err"}
         /\ \A j \in 1..Len(lg_results) : lg_results[j].kind = "Ok"
         /\ OneZeroReserveAmongPopulated(lg_results[k].pools))
            => /\ lg_pc = "ok"
               /\ \A j \in 1..Len(lg_results) : \A i \in 1..Len(lg_results[j].pools) :
                    data_is_populated(lg_results[j].pools[i])
                        => lg_results[j].pools[i].address \in Addresses(lg_pools)
               /\ \A i \in 1..Len(lg_results[k].pools) :
                    HasZeroReserve(lg_results[k].pools[i])
                        => lg_results[k].pools[i].address \notin Addresses(lg_pools)

\* C6: the pair (pools, block number) an index-range run returns is
\* consistent: every returned pool was created at a block <= the block number.
C6_PoolsAsOfBlockNumber ==
    ix_pc = "ok" =>
        \A k \in 1..Len(ix_pools) : registry[ix_pools[k].address] <= ix_current_block

\* the elements of a sequence
Range(seq) == {seq[i] : i \in 1..Len(seq)}

\* the first-round windows whose call failed and was classified OutOfGasError
FailedWindows ==
    {k \in 1..Len(weth_results) :
        weth_results[k].kind = "Err" /\ weth_results[k].err = "OutOfGasError"}

\* the first-round windows whose call failed as too large to execute
TooLargeWindows == {k \in 1..Len(weth_results) : weth_results[k].cause = "too_large"}

\* the retry calls issued for an address of first-round window k
RetriesOf(k) ==
    {j \in 1..Len(retry_futures) : Range(retry_futures[j]) \cap Range(weth_futures[k]) # {}}

C9_TransportErrorNotRetried ==
    \A k \in 1..Len(weth_results) :
        weth_results[k].cause = "transport" =>
            /\ weth_pc \in {"round1", "err"}
            /\ RetriesOf(k) = {}

FirstRetryError ==
    retry_results[CHOOSE j \in 1..Len(retry_results) :
                    /\ retry_results[j].kind = "Err"
                    /\ \A i \in 1..(j - 1) : retry_results[i].kind = "Ok"].err

FirstWindowError(results) ==
    results[CHOOSE k \in 1..Len(results) :
                /\ results[k].kind = "Err"
                /\ \A i \in 1..(k - 1) : results[i].kind # "Err"].err

\* C11: when a window of a discovery run failed, in whatever order the
\* windows completed, the run returns the error of the first failed window
\* and no pool at all, in the index-range run and in the log-range run.
C11_ErrorReturnsNoPools ==
    /\ (/\ ix_pc \in {"ok", "err"}
        /\ \E k \in 1..Len(ix_results) : ix_results[k].kind = "Err")
            => /\ ix_pc = "err"
               /\ ix_err = FirstWindowError(ix_results)
               /\ ix_pools = <<>>
    /\ (/\ lg_pc \in {"ok", "err"}
        /\ \E k \in 1..Len(lg_results) : lg_results[k].kind = "Err")
            => /\ lg_pc = "err"
               /\ lg_err = FirstWindowError(lg_results)
               /\ lg_pools = <<>>
    /\ ix_pc = "err" => \E k \in 1..Len(ix_results) : ix_results[k].kind = "Err"
    /\ lg_pc = "err" => \E k \in 1..Len(lg_results) : lg_results[k].kind = "Err"

\* C11 witness: a log-range run returned an error although an earlier window
\* had succeeded with a pool
C11_Witness ==
    /\ lg_pc = "err"
    /\ \E k \in 1..Len(lg_results) :
            /\ lg_results[k].kind = "Err"
            /\ \E i \in 1..(k - 1) :
                    lg_results[i].kind = "Ok" /\ Len(lg_results[i].pools) > 0

\* the indices of the half-open window w
WindowIndices(w) == {i \in w[1]..(w[2] - 1) : TRUE}

\* C12: the windows of an index-range run over N pairs with step w are
\* pairwise disjoint, each has from < to, their union is [0, N), and the
\* merged result of a run without failures holds the pool of registry index
\* i at position i.
C12_WindowsPartitionRange ==
    ix_pc \in {"joined", "ok"} =>
        /\ \A k \in 1..Len(ix_futures) : ix_futures[k][1] < ix_futures[k][2]
        /\ \A j, k \in 1..Len(ix_futures) :
                j # k => WindowIndices(ix_futures[j]) \cap WindowIndices(ix_futures[k]) = {}
        /\ UNION {WindowIndices(ix_futures[k]) : k \in 1..Len(ix_futures)}
                = 0..(ix_pairs_length - 1)
        /\ \A k \in 1..Len(ix_futures) :
                ix_futures[k] = <<(k - 1) * ix_step, Min(k * ix_step, ix_pairs_length)>>
        /\ ix_pc = "ok" =>
                /\ Len(ix_pools) = ix_pairs_length
                /\ \A i \in 1..Len(ix_pools) : ix_pools[i].address = allPairs(i - 1)

\* C12 witness: a run over w + 1 pairs with step w = 2 returned, its last
\* window clipped to the pair count
C12_Witness ==
    /\ ix_pc = "ok"
    /\ ix_step = 2
    /\ ix_pairs_length = ix_step + 1
    /\ Len(ix_futures) = 2
    /\ ix_futures[2] = <<2, 3>>

\* the reader's call returns in this step
ReadReturns == rd_result.kind = "none" /\ rd_result'.kind # "none"

\* C13: a read of the path made while a save is in progress over a complete
\* checkpoint returns the previous checkpoint or the new one.
C13_ReaderSeesCompleteCheckpoint ==
    [][(/\ ReadReturns
        /\ rd_result'.cause # "Io"
        /\ sv_pc = "writing"
        /\ sv_previous # NoCheckpoint)
            => /\ rd_result'.kind = "Ok"
               /\ rd_result'.value \in {sv_previous, sv_self}]_vars

\* C14: a read made after save_to_path returned Ok, with no save in
\* progress, returns the saved checkpoint, field by field and with the pools
\* in the same order, also when the save replaced an earlier checkpoint.
C14_SaveThenReadRoundTrip ==
    [][(/\ ReadReturns
        /\ rd_result'.cause # "Io"
        /\ sv_pc = "idle"
        /\ sv_result = "Ok")
            => /\ rd_result'.kind = "Ok"
               /\ rd_result'.value = sv_self
               /\ rd_result'.value.amms = sv_self.amms]_vars

\* C14 witness: a checkpoint with two pools was saved over a different
\* complete checkpoint and then read back
C14_Witness ==
    /\ sv_pc = "idle"
    /\ sv_result = "Ok"
    /\ Len(sv_self.amms) = 2
    /\ sv_previous # NoCheckpoint
    /\ sv_previous # sv_self
    /\ Len(sv_previous.amms) > 0
    /\ rd_result.kind = "Ok"
    /\ rd_result.value = sv_self

\* C15: a read of a path where no file exists does not return an error but
\* an outcome of its own.
C15_MissingFileIsNotAnError ==
    rd_result.cause = "NotFound" => rd_result.kind # "Err"

\* the response is what the batch contract returns: one tuple per input
\* address, every decimals word within uint8
OneTuplePerAddress ==
    /\ call_args.return_data.kind = "array"
    /\ Len(call_args.return_data.tuples) = Len(call_args.pair_addresses)
    /\ \A i \in 1..Len(call_args.return_data.tuples) :
            /\ call_args.return_data.tuples[i].token_a_decimals < 256
            /\ call_args.return_data.tuples[i].token_b_decimals < 256

\* C16: on a response of one tuple per input address the call returns Ok
\* with n pools, pool i having the address a[i], the tokens, decimals and
\* reserves of the i-th tuple and the fee argument.
C16_PoolsMapOneToOne ==
    (call_result.kind # "none" /\ OneTuplePerAddress) =>
        /\ call_result.kind = "Ok"
        /\ Len(call_result.value) = Len(call_args.pair_addresses)
        /\ \A i \in 1..Len(call_result.value) :
            LET pool == call_result.value[i]
                tup == call_args.return_data.tuples[i]
            IN  /\ pool.address = call_args.pair_addresses[i]
                /\ pool.token_a = tup.token_a
                /\ pool.token_a_decimals = tup.token_a_decimals
                /\ pool.token_b = tup.token_b
                /\ pool.token_b_decimals = tup.token_b_decimals
                /\ pool.reserve_0 = tup.reserve_0
                /\ pool.reserve_1 = tup.reserve_1
                /\ pool.fee = call_args.fee

\* C16 witness: a call on two different addresses returned two pools built
\* from two different tuples
C16_Witness ==
    /\ call_fn = "get_uniswap_v2_pool_data_batch_request"
    /\ call_result.kind = "Ok"
    /\ OneTuplePerAddress
    /\ Len(call_result.value) = 2
    /\ call_args.pair_addresses[1] # call_args.pair_addresses[2]
    /\ call_args.return_data.tuples[1] # call_args.return_data.tuples[2]

\* C17: on a response whose shape is not the expected one (here: it does not
\* decode, or its array is longer than the input addresses) the call returns
\* the batch decode error as an Err result, and it never panics.
C17_BadShapeIsBatchRequestError ==
    /\ call_result.kind # "Panic"
    /\ (/\ call_result.kind # "none"
        /\ \/ call_args.return_data.kind = "undecodable"
           \/ /\ call_args.return_data.kind = "array"
              /\ Len(call_args.return_data.tuples) > Len(call_args.pair_addresses))
            => call_result = CallErr("BatchRequestError")

\* the places of the response that hold a non-zero address
NonZeroPlaces == {i \in 1..Len(call_args.response) : call_args.response[i] # ZERO_ADDRESS}

\* the j-th of these places, counted from the front
NonZeroPlace(j) ==
    CHOOSE i \in NonZeroPlaces : Cardinality({k \in NonZeroPlaces : k <= i}) = j

\* C18: the result holds no zero address, has one element per non-zero
\* element of the response, and its j-th element is the j-th non-zero
\* address of the response.
C18_NonZeroAddressesInOrder ==
    (call_fn = "get_uniswap_v2_pairs_batch_request" /\ call_result.kind # "none") =>
        /\ call_result.kind = "Ok"
        /\ \A j \in 1..Len(call_result.value) : call_result.value[j] # ZERO_ADDRESS
        /\ Len(call_result.value) = Cardinality(NonZeroPlaces)
        /\ \A j \in 1..Len(call_result.value) :
                call_result.value[j] = call_args.response[NonZeroPlace(j)]

\* C18 witness: the call returned two different addresses in response order
\* from a response with a zero address before, between or after them
C18_Witness ==
    /\ call_fn = "get_uniswap_v2_pairs_batch_request"
    /\ call_result.kind = "Ok"
    /\ Len(call_result.value) = 2
    /\ call_result.value[1] # call_result.value[2]
    /\ \E i \in 2..(Len(call_args.response) - 1) : call_args.response[i] = ZERO_ADDRESS
    /\ call_args.response[1] # ZERO_ADDRESS

\* the reserve of the token given and the reserve of the other token
ReserveIn ==
    IF call_args.pool.token_a = call_args.token_in
        THEN call_args.pool.reserve_0 ELSE call_args.pool.reserve_1
ReserveOut ==
    IF call_args.pool.token_a = call_args.token_in
        THEN call_args.pool.reserve_1 ELSE call_args.pool.reserve_0

\* C19: for every reserve up to the largest, every fee in basis points and
\* every amount up to the largest of the word, simulate_swap returns a value:
\* no intermediate product or sum overflows.
C19_SwapNeverOverflows ==
    (call_fn = "simulate_swap" /\ call_result.kind # "none") => call_result.kind = "Ok"

\* C20: for a non-zero amount and non-zero reserves the call returns
\* floor(amount_in * f * reserve_out / (reserve_in * 1000 + amount_in * f))
\* with f = (10000 - fee / 10) / 10, which is 997 for the fee 300.
C20_AmountOutFormula ==
    (/\ call_fn = "simulate_swap"
     /\ call_result.kind # "none"
     /\ call_args.amount_in # 0 /\ ReserveIn # 0 /\ ReserveOut # 0)
        => /\ call_result.kind = "Ok"
           /\ LET f == (10000 - call_args.pool.fee \div 10) \div 10
                  num == call_args.amount_in * f * ReserveOut
                  den == ReserveIn * 1000 + call_args.amount_in * f
              IN  /\ call_args.pool.fee = 300 => f = 997
                  /\ call_result.value * den <= num
                  /\ num < (call_result.value + 1) * den

\* the formula of C20 on the calls that return
C20_AmountOutFormulaWhenReturned ==
    (/\ call_fn = "simulate_swap"
     /\ call_result.kind = "Ok"
     /\ call_args.amount_in # 0 /\ ReserveIn # 0 /\ ReserveOut # 0)
        => LET f == (10000 - call_args.pool.fee \div 10) \div 10
               num == call_args.amount_in * f * ReserveOut
               den == ReserveIn * 1000 + call_args.amount_in * f
           IN  /\ call_args.pool.fee = 300 => f = 997
               /\ call_result.value * den <= num
               /\ num < (call_result.value + 1) * den

\* C21: for non-zero reserves and every fee the call returns an amount below
\* the reserve of the other token, and no smaller amount_in returns more.
C21_MonotoneBelowReserveOut ==
    (/\ call_fn = "simulate_swap"
     /\ call_result.kind # "none"
     /\ call_args.pool.reserve_0 > 0 /\ call_args.pool.reserve_1 > 0)
        => /\ call_result.kind = "Ok"
           /\ call_result.value < ReserveOut
           /\ \A a1 \in AmountsIn :
                a1 <= call_args.amount_in =>
                    LET out1 == simulate_swap(call_args.pool, call_args.token_in, a1)
                    IN  out1.kind = "Ok" /\ out1.value <= call_result.value

\* the bound and the order of C21 on the calls that return
C21_MonotoneBelowReserveOutWhenReturned ==
    (/\ call_fn = "simulate_swap"
     /\ call_result.kind = "Ok"
     /\ call_args.pool.reserve_0 > 0 /\ call_args.pool.reserve_1 > 0)
        => /\ call_result.value < ReserveOut
           /\ \A a1 \in AmountsIn :
                a1 <= call_args.amount_in =>
                    LET out1 == simulate_swap(call_args.pool, call_args.token_in, a1)
                    IN  out1.kind = "Ok" /\ out1.value <= call_result.value

\* C22: a call with a zero amount_in, a zero reserve of the token given or a
\* zero reserve of the other token returns Ok(0), for both directions; no
\* call returns an error, and no call divides by zero.
C22_ZeroInputsReturnZero ==
    (call_fn = "simulate_swap" /\ call_result.kind # "none") =>
        /\ (call_args.amount_in = 0 \/ ReserveIn = 0 \/ ReserveOut = 0)
                => call_result = CallOk(0)
        /\ call_result.kind # "Err"
        /\ call_result # DivideByZero

\* C22 witness: a swap of a non-zero amount of token_b against an empty
\* reserve of token_b and a non-empty reserve of token_a returned Ok(0)
C22_Witness ==
    /\ call_fn = "simulate_swap"
    /\ call_result = CallOk(0)
    /\ call_args.token_in = call_args.pool.token_b
    /\ call_args.amount_in > 0
    /\ ReserveIn = 0
    /\ ReserveOut > 0

\* the price call has returned or panicked
PriceReturned ==
    /\ call_fn = "calculate_price_64_x_64"
    /\ call_result.kind \in {"Ok", "Err", "Panic"}

\* C23: for every pair of decimals of the u8 and reserves up to the largest,
\* the shift is computed without leaving the i8, the power without leaving
\* the u128, and the call returns Ok.
C23_PriceNeverFails ==
    PriceReturned =>
        /\ ~I8SubOverflows(AsI8(call_args.pool.token_a_decimals),
                           AsI8(call_args.pool.token_b_decimals))
        /\ decimal_shift(call_args.pool, FALSE).kind = "Ok"
            => ~Pow10Overflows(unsigned_abs(decimal_shift(call_args.pool, FALSE).value))
        /\ call_result.kind = "Ok"

OtherToken ==
    IF call_args.base_token = call_args.pool.token_a
        THEN call_args.pool.token_b ELSE call_args.pool.token_a

\* the price of the same call with the other token as base
OtherPrice ==
    calculate_price_64_x_64(call_args.pool, OtherToken,
                            call_args.overflow_checks, call_args.div_overflow)

\* the product of the two prices is the square of 1.0 up to the two floors
WithinRounding(p, q) ==
    /\ p * q <= U128_0X10000000000000000 * U128_0X10000000000000000
    /\ U128_0X10000000000000000 * U128_0X10000000000000000 <= p * q + p + q + 1

\* C25: for a populated pool the prices with token_a and with token_b as
\* base are returned and their product is the square of 1.0 within rounding.
C25_PricesReciprocal ==
    (/\ PriceReturned
     /\ call_args.base_token \in {call_args.pool.token_a, call_args.pool.token_b}
     /\ data_is_populated(call_args.pool))
        => /\ call_result.kind = "Ok"
           /\ OtherPrice.kind = "Ok"
           /\ WithinRounding(call_result.value, OtherPrice.value)

\* the quotient of x over y in the fixed point, as a number
Quotient(x, y) == (x * U128_0X10000000000000000) \div y

\* both prices of the call are quotients that fit the u128
BothPricesInRange ==
    LET r == NormalizedReserves(call_args.pool, call_args.overflow_checks) IN
    /\ r.kind = "Ok"
    /\ r.value[1] # 0 /\ r.value[2] # 0
    /\ Quotient(r.value[1], r.value[2]) <= U128_MAX
    /\ Quotient(r.value[2], r.value[1]) <= U128_MAX

\* the reciprocity of C25 on the calls whose two prices fit the u128
C25_PricesReciprocalWhenInRange ==
    (/\ PriceReturned
     /\ call_args.base_token \in {call_args.pool.token_a, call_args.pool.token_b}
     /\ BothPricesInRange)
        => /\ call_result.kind = "Ok"
           /\ OtherPrice.kind = "Ok"
           /\ WithinRounding(call_result.value, OtherPrice.value)

\* the reserves scaled as stated: of the token with fewer decimals, by the
\* power of ten of the difference of the decimals
StatedReserves ==
    LET a == call_args.pool.token_a_decimals
        b == call_args.pool.token_b_decimals
    IN  <<IF a < b THEN call_args.pool.reserve_0 * Pow10Saturating(b - a)
                   ELSE call_args.pool.reserve_0,
          IF a > b THEN call_args.pool.reserve_1 * Pow10Saturating(a - b)
                   ELSE call_args.pool.reserve_1>>

\* the difference of the decimals
DecimalsDifference ==
    unsigned_abs(call_args.pool.token_a_decimals - call_args.pool.token_b_decimals)

\* C27: the call scales the reserve of the token with fewer decimals by the
\* power of ten of the difference and returns the quotient of the other
\* token's scaled reserve over the base token's: r1/r0 for base token_a,
\* r0/r1 for base token_b.
C27_ScalesFewerDecimals ==
    (/\ PriceReturned
     /\ call_args.base_token \in {call_args.pool.token_a, call_args.pool.token_b})
        => /\ ~Pow10Overflows(DecimalsDifference)
           /\ BaseReserve(StatedReserves, call_args.pool, call_args.base_token) # 0
                => call_result =
                     CallOk(Quotient(BaseReserve(StatedReserves, call_args.pool, OtherToken),
                                     BaseReserve(StatedReserves, call_args.pool,
                                                 call_args.base_token)))

\* the scaling and the quotient of C27 on the calls with decimals below the
\* sign bit of the i8, a power within the u128 and a quotient within it
C27_ScalesFewerDecimalsWhenInRange ==
    (/\ PriceReturned
     /\ call_args.base_token \in {call_args.pool.token_a, call_args.pool.token_b}
     /\ call_args.pool.token_a_decimals < 128
     /\ call_args.pool.token_b_decimals < 128
     /\ ~Pow10Overflows(DecimalsDifference)
     /\ BaseReserve(StatedReserves, call_args.pool, call_args.base_token) # 0
     /\ Quotient(BaseReserve(StatedReserves, call_args.pool, OtherToken),
                 BaseReserve(StatedReserves, call_args.pool, call_args.base_token))
            <= U128_MAX)
        => call_result =
             CallOk(Quotient(BaseReserve(StatedReserves, call_args.pool, OtherToken),
                             BaseReserve(StatedReserves, call_args.pool,
                                         call_args.base_token)))

\* the window calls of the run in flight: issued and not yet returned
InFlight ==
    Cardinality({k \in 1..Len(ix_results) : ix_results[k].kind = "Pending"})
        + Cardinality({k \in 1..Len(lg_results) : lg_results[k].kind = "Pending"})

\* a concurrency cap: the code configures none, and this one is below the
\* windows of the largest run
ConcurrencyCap == MaxWindows - 1

\* C26: at every moment of a discovery run at most ConcurrencyCap window
\* calls are in flight.
C26_InFlightCapped == InFlight <= ConcurrencyCap

\* the results of the windows from window k on, one after the other
RECURSIVE WindowResultsFrom(_)
WindowResultsFrom(k) ==
    IF k > Len(ix_futures) THEN <<>>
    ELSE get_pairs_range(ix_futures[k][1], ix_futures[k][2]) \o WindowResultsFrom(k + 1)

\* C28: the pool list of an Ok run is the concatenation of the window
\* results in ascending window order, each as the chain returns it, whatever
\* the order in which the window calls returned; so it is the list of the
\* chain's pairs by index.
C28_PoolsInWindowOrder ==
    ix_pc = "ok" =>
        /\ ix_pools = WindowResultsFrom(1)
        /\ ix_pools = get_pairs_range(0, ix_pairs_length)

\* C28 witness: an Ok run of three windows or more in which a window call
\* returned before an earlier one
C28_Witness ==
    /\ ix_pc = "ok"
    /\ Len(ix_futures) >= 3
    /\ ix_overtaken
    /\ Len(ix_pools) = ix_pairs_length

\* C30: a log-range run started beyond the head does not panic, its block
\* count current_block - sync_block does not wrap, and it returns Ok with an
\* empty pool list and the head it read.
C30_StartBeyondHeadCompletes ==
    /\ lg_pc # "panic"
    /\ (lg_pc \in {"joined", "ok", "err"} /\ sync_block > current_block)
            => /\ total_blocks.wrapped = 0
               /\ lg_pc # "err"
               /\ lg_pc = "ok" => lg_pools = <<>>

\* the run of C30 in a build without overflow checks: it returns Ok with an
\* empty pool list, on a wrapped block count
C30_StartBeyondHeadReturnsEmpty ==
    (lg_pc \in {"joined", "ok", "err"} /\ sync_block > current_block)
        => /\ lg_futures = <<>>
           /\ lg_pc # "err"
           /\ lg_pc = "ok" => lg_pools = <<>>

\* C29: a swap of a token that is not token_a returns what the swap of
\* token_b returns, the amount out of reserve_1 as input side and reserve_0
\* as output side, and never an error; a swap of token_a has reserve_0 as
\* input side; a price with a base token that is not token_a is the price
\* with base token_b.
C29_ForeignTokenIsTokenB ==
    /\ (call_fn = "simulate_swap" /\ call_result.kind # "none") =>
        /\ call_result.kind # "Err"
        /\ call_args.token_in # call_args.pool.token_a =>
            /\ call_result = simulate_swap(call_args.pool, call_args.pool.token_b,
                                           call_args.amount_in)
            /\ call_result = get_amount_out(call_args.pool.fee, call_args.amount_in,
                                call_args.pool.reserve_1, call_args.pool.reserve_0)
        /\ call_args.token_in = call_args.pool.token_a =>
            call_result = get_amount_out(call_args.pool.fee, call_args.amount_in,
                                call_args.pool.reserve_0, call_args.pool.reserve_1)
    /\ (PriceReturned /\ call_args.base_token # call_args.pool.token_a) =>
        call_result = calculate_price_64_x_64(call_args.pool, call_args.pool.token_b,
                            call_args.overflow_checks, call_args.div_overflow)

\* C29 witness: a swap of a token that is neither token of the pool returned
\* a non-zero amount, which the swap of token_a does not return
C29_Witness ==
    /\ call_fn = "simulate_swap"
    /\ call_result.kind = "Ok"
    /\ call_args.token_in \notin {call_args.pool.token_a, call_args.pool.token_b}
    /\ call_result.value > 0
    /\ call_result # simulate_swap(call_args.pool, call_args.pool.token_a,
                                   call_args.amount_in)

====
